---- MODULE Spec2Model ----
(***************************************************************************)
(* A model of lull::FlatbufferWriter (lullaby/util/flatbuffer_writer.h).   *)
(*                                                                         *)
(* The writer builds a flatbuffer bottom-up inside an InwardBuffer: field  *)
(* records and pending vector references are scratch data in the front     *)
(* ("low") extent, finished objects are written backwards into the back    *)
(* ("high") extent.  A back position p names the byte that lies p bytes     *)
(* before the end of the buffer, so back[p] is the p-th byte ever written   *)
(* to the back extent and "reading forward" from p visits p, p-1, p-2 ...   *)
(*                                                                         *)
(* The serialization hooks (generated code) are the environment: they call *)
(* the public operations of the writer in any well-nested order.           *)
(***************************************************************************)
EXTENDS Integers, Sequences, FiniteSets, TLC

VARIABLES
    front,    \* front extent of the InwardBuffer, as 32-bit words
    back,     \* back extent of the InwardBuffer, as bytes, in write order
    stack,    \* the open SerializeObject/Table/Union/VectorOfTables calls
    pc,       \* "idle", "run", "done" or "aborted"
    nfields,  \* number of field-write calls made so far
    refs,     \* history: every reference slot written, [P, target]
    tables,   \* history: every table EndTable finished
    vectors,  \* history: every vector EndVector finished
    last,     \* history: what the last operation was given and did
    stale     \* history: the address variables used while dangling

vars == <<front, back, stack, pc, nfields, refs, tables, vectors, last, stale>>

----------------------------------------------------------------------------
(* Bounds of the model.                                                    *)

MaxSlot == 3        \* vtable slots a table declares: 2..MaxSlot
MaxDepth == 2       \* tables open at any time
MaxFields == 2      \* field-write calls in one encode
MaxVec == 2         \* elements of a vector

(* Sizes fixed by the program's types.                                     *)

FieldBytes == 8     \* sizeof(Field)
RefBytes == 4       \* sizeof(uint32_t), a reference slot or vector count
VOffsetBytes == 2   \* sizeof(uint16_t), a vtable entry
MinSlot == 2        \* first slot after the two vtable header entries

\* The slots a table declares, and the ones a hook writes: the lowest and the
\* highest, so that the slots between them stay unset.
Declared == MinSlot..MaxSlot
Slots == {MinSlot, MaxSlot}
\* What the caller's buffer holds on its front extent before the encode.
Scratch0 == <<7>>
ScalarSizes == {1, 2, 4, 8}
StructTypes == {<<12, 4>>}
ScalarValues == {258}
\* <<sizeof, alignof>> of the struct types of 256 bytes and more.
LargeTypes == {<<256, 4>>, <<260, 4>>}
\* The byte FlatbufferNativeType<T>::Write fills a native struct with.
FillBytes == {171}
ElemSizes == {2}
Strings == {<<>>, <<97, 98>>}
\* A vector is empty or has MaxVec elements.
VecLens == {0, MaxVec}
\* The string vectors written: <<>>, and "ab", "", "ab", ... and
\* "", "ab", "", ...
StringVectors ==
    {[i \in 1..n |-> IF i % 2 = k THEN <<>> ELSE <<97, 98>>] :
         n \in VecLens, k \in {0, 1}}
\* The scalar vectors written: <<>> and <<10, 20, ...>>.
ScalarVectors == {[i \in 1..n |-> 10 * i] : n \in VecLens}

----------------------------------------------------------------------------
(* InwardBuffer primitives.                                                *)

RECURSIVE Pow256(_)
Pow256(k) == IF k = 0 THEN 1 ELSE 256 * Pow256(k - 1)

\* static_cast<uint16_t> and static_cast<uint8_t>.  Every size_t of the model
\* is below 2^31, where static_cast<uint32_t> keeps the value; unsigned
\* arithmetic that wraps below zero is kept as a negative integer and becomes
\* its two's complement when it is written as bytes.
U16(v) == v % 65536
U8(v) == v % 256

\* Byte k (0 = lowest) of the two's complement representation of v.
ByteOf(v, k) ==
    IF k >= 4 THEN (IF v < 0 THEN 255 ELSE 0) ELSE (v \div Pow256(k)) % 256

FrontSize(f) == 4 * Len(f)
BackSize(b) == Len(b)

\* WriteBack<T>(value): the value's w bytes, little-endian, end up at the new
\* back position; the lowest address is the last byte written.
WriteBack(b, v, w) == b \o [i \in 1..w |-> ByteOf(v, w - i)]

\* WriteBack(ptr, len): raw bytes, first byte at the lowest address.
WriteBackBytes(b, data) ==
    b \o [i \in 1..Len(data) |-> data[Len(data) + 1 - i]]

\* AllocBack(n) followed by the caller filling the block with byte `fill`.
AllocBack(b, n, fill) == b \o [i \in 1..n |-> fill]

WriteFront(f, word) == Append(f, word)

EraseFront(f, n) == SubSeq(f, 1, Len(f) - (n \div 4))

\* The w-byte little-endian value whose first byte lies at back position p.
\* A 4-byte value with its top bit set reads as the negative integer with that
\* two's complement representation.
ReadBack(b, p, w) ==
    LET Digit(k) == IF k = 3 /\ b[p - k] >= 128 THEN b[p - k] - 256 ELSE b[p - k]
        RECURSIVE Sum(_)
        Sum(k) == IF k = w THEN 0 ELSE Digit(k) * Pow256(k) + Sum(k + 1)
    IN Sum(0)

\* Store a 16-bit value in place at back position p.
PokeBack16(b, p, v) == [b EXCEPT ![p] = v % 256, ![p - 1] = (v \div 256) % 256]

----------------------------------------------------------------------------
(* struct Field, as it lies in front memory: one word holding index, size  *)
(* and align, one word holding offset.                                     *)

FieldWord(index, size, align) == U16(index) + 65536 * U8(size) + 16777216 * U8(align)
FieldIndex(w) == w % 65536
FieldSize(w) == (w \div 65536) % 256
FieldAlign(w) == w \div 16777216

FieldAt(f, iter) ==
    [index  |-> FieldIndex(f[iter \div 4 + 1]),
     size   |-> FieldSize(f[iter \div 4 + 1]),
     align  |-> FieldAlign(f[iter \div 4 + 1]),
     offset |-> f[iter \div 4 + 2]]

WriteFrontField(f, index, size, align, offset) ==
    WriteFront(WriteFront(f, FieldWord(index, size, align)), offset)

----------------------------------------------------------------------------
(* The writer's private operations.  A buffer is [front, back]; `log` is   *)
(* history: the reference slots the operation wrote, each with the back    *)
(* size right after the slot was written (P) and the position it was given *)
(* as its target.                                                          *)

\* Body(v) with v evaluated once (TLC evaluates the definitions of a LET each
\* time they are used).
Bind(v, Body(_)) == CHOOSE r \in {Body(x) : x \in {v}} : TRUE

Max(a, b) == IF a >= b THEN a ELSE b

Buf(f, b) == [front |-> f, back |-> b]

\* Prealign that never pads.
PrealignNever(b, alignment) == b

RECURSIVE Prealign(_, _)
Prealign(b, alignment) ==
    IF BackSize(b) % alignment # 0
    THEN Bind(WriteBack(b, 0, 1), LAMBDA b1 : Prealign(b1, alignment))
    ELSE b

\* AddValueField(index, value): T has sizeof(T) = size, alignof(T) = align.
AddValueField(buf, index, size, align, value) ==
    Bind(WriteBack(Prealign(buf.back, align), value, size), LAMBDA b2 :
        Buf(WriteFrontField(buf.front, index, size, align, BackSize(b2)), b2))

\* AddValueField(index, size, align) followed by FlatbufferNativeType::Write
\* filling the block it returns with byte `fill`.
AddValueFieldNative(buf, index, size, align, fill) ==
    Bind(AllocBack(Prealign(buf.back, align), size, fill), LAMBDA b2 :
        Buf(WriteFrontField(buf.front, index, size, align, BackSize(b2)), b2))

AddReferenceField(buf, index, reference) ==
    Buf(WriteFrontField(buf.front, index, 0, 0, reference), buf.back)

\* WriteReference measuring from the start of the slot instead of its end.
WriteReferenceFromStart(b, reference) ==
    LET end == BackSize(b)
        offset == end - reference
    IN  WriteBack(b, offset, RefBytes)

WriteReference(b, reference) ==
    LET end == BackSize(b) + RefBytes
        offset == end - reference
    IN  WriteBack(b, offset, RefBytes)

\* CreateString without the test for the empty string.
CreateStringAlways(b, str) ==
    Bind(WriteBack(WriteBackBytes(WriteBack(b, 0, 1), str), Len(str), RefBytes),
         LAMBDA b3 : [back |-> b3, ret |-> BackSize(b3)])

CreateString(b, str) ==
    IF Len(str) = 0
    THEN [back |-> b, ret |-> 0]
    ELSE Bind(WriteBack(WriteBackBytes(WriteBack(b, 0, 1), str), Len(str), RefBytes),
              LAMBDA b3 : [back |-> b3, ret |-> BackSize(b3)])

\* One turn of the loop of WriteTable, for the field record at iter.
WriteTableField(buf, iter, acc) ==
    Bind(FieldAt(buf.front, iter), LAMBDA field :
      LET max_field == Max(acc.max_field, field.index)
      IN  IF field.size = 0 /\ field.offset = 0
          THEN [buf |-> buf, object_size |-> acc.object_size,
                max_field |-> max_field, log |-> acc.log]
          ELSE IF field.size = 0
          THEN Bind(WriteReference(buf.back, field.offset), LAMBDA b1 :
                   [buf |-> Buf([buf.front EXCEPT ![iter \div 4 + 2] = BackSize(b1)],
                                b1),
                    object_size |-> acc.object_size + RefBytes,
                    max_field |-> max_field,
                    log |-> acc.log \cup
                            {[P |-> BackSize(b1), target |-> field.offset]}])
          ELSE [buf |-> buf, object_size |-> acc.object_size + field.size,
                max_field |-> max_field, log |-> acc.log])

RECURSIVE WriteTableLoop(_, _, _)
WriteTableLoop(iter, end, acc) ==
    IF iter >= end
    THEN acc
    ELSE Bind(WriteTableField(acc.buf, iter, acc), LAMBDA a :
             WriteTableLoop(iter + FieldBytes, end, a))

WriteTable(buf, start, end) ==
    Bind(WriteTableLoop(start, end,
             [buf |-> buf, object_size |-> 0, max_field |-> MinSlot, log |-> {}]),
         LAMBDA w :
      LET vtable_size == (w.max_field + 1) * VOffsetBytes
      IN  Bind(WriteBack(w.buf.back, vtable_size, 4), LAMBDA b1 :
              [buf |-> Buf(w.buf.front, b1), object_size |-> w.object_size,
               vtable_size |-> vtable_size, root_offset |-> BackSize(b1),
               log |-> w.log]))

CreateVTable(b, vtable_size, object_size) ==
    LET offsets_size == vtable_size - 2 * VOffsetBytes
    IN  Bind(AllocBack(b, offsets_size, 0), LAMBDA b1 :
            [back |-> WriteBack(WriteBack(b1, U16(object_size), VOffsetBytes),
                                U16(vtable_size), VOffsetBytes),
             vtable_offset |-> BackSize(b1)])

\* UpdateVTable that does not skip the records with offset 0.
UpdateVTableFieldNoSkip(buf, iter, root_offset, vtable_offset) ==
    Bind(FieldAt(buf.front, iter), LAMBDA field :
      LET offset == U16(root_offset - field.offset)
          p == vtable_offset - VOffsetBytes * (field.index - MinSlot)
      IN  Buf(buf.front, PokeBack16(buf.back, p, offset)))

\* UpdateVTable that measures a field's offset from the vtable, not the root.
UpdateVTableFieldFromVTable(buf, iter, root_offset, vtable_offset) ==
    Bind(FieldAt(buf.front, iter), LAMBDA field :
      LET offset == U16(vtable_offset - field.offset)
          p == vtable_offset - VOffsetBytes * (field.index - MinSlot)
      IN  IF field.offset = 0
          THEN buf
          ELSE Buf(buf.front, PokeBack16(buf.back, p, offset)))

\* One turn of the loop of UpdateVTable, for the field record at iter.
UpdateVTableField(buf, iter, root_offset, vtable_offset) ==
    Bind(FieldAt(buf.front, iter), LAMBDA field :
      LET offset == U16(root_offset - field.offset)
          \* &offsets[field.index - 2], as a back position
          p == vtable_offset - VOffsetBytes * (field.index - MinSlot)
      IN  IF field.offset = 0
          THEN buf
          ELSE Buf(buf.front, PokeBack16(buf.back, p, offset)))

RECURSIVE UpdateVTable(_, _, _, _, _)
UpdateVTable(buf, iter, end, root_offset, vtable_offset) ==
    IF iter >= end
    THEN buf
    ELSE Bind(UpdateVTableField(buf, iter, root_offset, vtable_offset), LAMBDA b1 :
             UpdateVTable(b1, iter + FieldBytes, end, root_offset, vtable_offset))

\* EndTable that leaves the table's field records on the front extent.
EndTableNoErase(buf, start) ==
    LET end == FrontSize(buf.front)
    IN  Bind(WriteTable(buf, start, end), LAMBDA w :
        Bind(CreateVTable(w.buf.back, w.vtable_size, w.object_size), LAMBDA c :
        Bind(UpdateVTable(Buf(w.buf.front, c.back), start, end,
                          w.root_offset, c.vtable_offset), LAMBDA u :
            [buf |-> u, ret |-> w.root_offset, log |-> w.log])))

EndTable(buf, start) ==
    LET end == FrontSize(buf.front)
    IN  Bind(WriteTable(buf, start, end), LAMBDA w :
        Bind(CreateVTable(w.buf.back, w.vtable_size, w.object_size), LAMBDA c :
        Bind(UpdateVTable(Buf(w.buf.front, c.back), start, end,
                          w.root_offset, c.vtable_offset), LAMBDA u :
            [buf |-> Buf(EraseFront(u.front, end - start), u.back),
             ret |-> w.root_offset, log |-> w.log])))

AddVectorReference(buf, reference) ==
    Buf(WriteFront(buf.front, reference), buf.back)

\* One turn of the loop of EndVector.
EndVectorElement(buf, log) ==
    LET size == FrontSize(buf.front)
        offset == buf.front[size \div 4]
    IN  Bind(WriteReference(buf.back, offset), LAMBDA b1 :
            [buf |-> Buf(EraseFront(buf.front, RefBytes), b1),
             log |-> log \cup {[P |-> BackSize(b1), target |-> offset]}])

RECURSIVE EndVectorLoop(_, _, _)
EndVectorLoop(i, num, acc) ==
    IF i >= num
    THEN acc
    ELSE Bind(EndVectorElement(acc.buf, acc.log), LAMBDA a :
             EndVectorLoop(i + 1, num, a))

EndVector(buf, start, num) ==
    LET end == FrontSize(buf.front)
    IN  Bind(IF start # end
             THEN EndVectorLoop(0, num, [buf |-> buf, log |-> {}])
             ELSE [buf |-> buf, log |-> {}], LAMBDA l :
          IF num = 0
          THEN [buf |-> l.buf, ret |-> 0, log |-> l.log]
          ELSE Bind(WriteBack(l.buf.back, num, RefBytes), LAMBDA b1 :
                   [buf |-> Buf(l.buf.front, b1), ret |-> BackSize(b1),
                    log |-> l.log]))

----------------------------------------------------------------------------
(* Raw buffer addresses.  Any write that adds bytes to the front or the    *)
(* back extent may grow the buffer and move its storage, which leaves      *)
(* every address obtained before it dangling.  The events of an operation, *)
(* in program order: Grow, a write that may grow the buffer; Get(a), the   *)
(* address variable a is assigned from FrontAt, BackAt or AllocBack;       *)
(* Use(a), memory is read or written through a.                            *)

Grow == <<"grow", "">>
Get(a) == <<"get", a>>
Use(a) == <<"use", a>>

\* The address variables used after a Grow that followed their last Get, every
\* Grow taken to move the storage.
RECURSIVE StaleUses(_, _)
StaleUses(events, valid) ==
    IF events = <<>>
    THEN {}
    ELSE LET e == Head(events)
         IN  IF e[1] = "grow" THEN StaleUses(Tail(events), {})
             ELSE IF e[1] = "get" THEN StaleUses(Tail(events), valid \cup {e[2]})
             ELSE (IF e[2] \in valid THEN {} ELSE {e[2]})
                      \cup StaleUses(Tail(events), valid)

Times(n, events) ==
    [i \in 1..(n * Len(events)) |-> events[((i - 1) % Len(events)) + 1]]

PrealignEvents(b, alignment) ==
    Times((alignment - (BackSize(b) % alignment)) % alignment, <<Grow>>)

\* AddValueField(index, value): Prealign, WriteBack, WriteFront.
AddValueFieldEvents(b, align) == PrealignEvents(b, align) \o <<Grow, Grow>>

\* AddValueField(index, size, align): Prealign, AllocBack, WriteFront, then
\* BackAt for the address it returns.
AddValueFieldNativeEvents(b, align) ==
    PrealignEvents(b, align) \o <<Grow, Grow, Get("ptr")>>

CreateStringEvents(str) == IF Len(str) = 0 THEN <<>> ELSE <<Grow, Grow, Grow>>

\* WriteTable that keeps the field pointer across WriteReference.
WriteTableFieldEventsKept(field) ==
    <<Get("field"), Use("field"), Use("field")>> \o
    (IF field.size = 0 /\ field.offset = 0 THEN <<>>
     ELSE <<Use("field")>> \o
          (IF field.size = 0
           THEN <<Use("field"), Grow, Use("field")>>
           ELSE <<Use("field")>>))

\* One turn of the loop of WriteTable: FrontAt(iter); field->index; the test
\* for a null reference; then WriteReference(field->offset), FrontAt(iter)
\* again and field->offset = ..., or field->size.
WriteTableFieldEvents(field) ==
    <<Get("field"), Use("field"), Use("field")>> \o
    (IF field.size = 0 /\ field.offset = 0 THEN <<>>
     ELSE <<Use("field")>> \o
          (IF field.size = 0
           THEN <<Use("field"), Grow, Get("field"), Use("field")>>
           ELSE <<Use("field")>>))

RECURSIVE WriteTableLoopEvents(_, _, _)
WriteTableLoopEvents(f, iter, end) ==
    IF iter >= end
    THEN <<>>
    ELSE WriteTableFieldEvents(FieldAt(f, iter))
             \o WriteTableLoopEvents(f, iter + FieldBytes, end)

\* The loop, then WriteBack of the offset to the vtable.
WriteTableEvents(f, start, end) == WriteTableLoopEvents(f, start, end) \o <<Grow>>

\* memset through the address AllocBack returned, then two WriteBack.
CreateVTableEvents == <<Grow, Get("block"), Use("block"), Grow, Grow>>

\* One turn of the loop of UpdateVTable: FrontAt(iter); field->offset; then
\* field->offset, field->index and the store through offsets.
UpdateVTableFieldEvents(field) ==
    <<Get("field"), Use("field")>> \o
    (IF field.offset = 0 THEN <<>>
     ELSE <<Use("field"), Use("field"), Use("offsets")>>)

RECURSIVE UpdateVTableLoopEvents(_, _, _)
UpdateVTableLoopEvents(f, iter, end) ==
    IF iter >= end
    THEN <<>>
    ELSE UpdateVTableFieldEvents(FieldAt(f, iter))
             \o UpdateVTableLoopEvents(f, iter + FieldBytes, end)

UpdateVTableEvents(f, start, end) ==
    <<Get("offsets")>> \o UpdateVTableLoopEvents(f, start, end)

\* EndTable(start) on the front extent f, as it is when EndTable is called.
EndTableEvents(f, start) ==
    WriteTableEvents(f, start, FrontSize(f)) \o CreateVTableEvents
        \o UpdateVTableEvents(f, start, FrontSize(f))

\* EndVector(start, num) with the front extent ending at end: each turn of
\* the loop takes FrontAt(size), reads *(ptr - 1) and calls WriteReference;
\* then WriteBack of the count.
EndVectorEvents(start, end, num) ==
    (IF start # end THEN Times(num, <<Get("ptr"), Use("ptr"), Grow>>) ELSE <<>>)
        \o (IF num = 0 THEN <<>> ELSE <<Grow>>)

\* Finish(root): WriteReference, then BackAt for the address it returns.
FinishEvents == <<Grow, Get("root")>>

\* VectorOfScalars: num AddVectorValue, EndVector, AddReferenceField.
VectorOfScalarsEvents(start, num) ==
    Times(num, <<Grow>>) \o EndVectorEvents(start, start, num) \o <<Grow>>

RECURSIVE AddVectorStringsEvents(_)
AddVectorStringsEvents(strs) ==
    IF strs = <<>>
    THEN <<>>
    ELSE CreateStringEvents(Head(strs)) \o <<Grow>>
             \o AddVectorStringsEvents(Tail(strs))

\* VectorOfStrings: CreateString and AddVectorReference for each string,
\* EndVector, AddReferenceField.
VectorOfStringsEvents(start, strs) ==
    AddVectorStringsEvents(strs)
        \o EndVectorEvents(start, start + RefBytes * Len(strs), Len(strs))
        \o <<Grow>>

----------------------------------------------------------------------------
(* The call stack of the encode.  A frame is one open SerializeObject,     *)
(* Table, Union or VectorOfTables call with its local variables; `used`    *)
(* and `vals` are the position of the serialization hook running in it;    *)
(* `fields`, `elems`, `below` and `back0` are history.                     *)

TableOps == {"Serialize", "Table", "Union", "VecElem"}

Frame(op, start, slot, num, f, b) ==
    [op |-> op, start |-> start, slot |-> slot, num |-> num, i |-> 0,
     used |-> {}, vals |-> FALSE,
     fields |-> <<>>, elems |-> <<>>, below |-> f, back0 |-> BackSize(b)]

Top == stack[Len(stack)]
Pop(st) == SubSeq(st, 1, Len(st) - 1)
ReplaceTop(st, fr) == [st EXCEPT ![Len(st)] = fr]

Depth == Cardinality({k \in 1..Len(stack) : stack[k].op \in TableOps})

ValueField(slot, size, align, pos) ==
    [slot |-> slot, kind |-> "value", size |-> size, align |-> align, pos |-> pos]
RefField(slot, target) ==
    [slot |-> slot, kind |-> "ref", size |-> 0, align |-> 0, pos |-> target]

NoteField(fr, g) ==
    [fr EXCEPT !.used = @ \cup {g.slot}, !.fields = Append(@, g),
               !.vals = @ \/ g.kind = "value"]

TableRecord(fr, r) ==
    [pos |-> r.ret, fields |-> fr.fields, slots |-> r.log, back0 |-> fr.back0]
VectorRecord(op, size, elems, r) ==
    [pos |-> r.ret, op |-> op, num |-> Len(elems), size |-> size,
     elems |-> elems, slots |-> r.log]

\* What the last operation was, and the buffer's sizes before it.
Did(op, arg, slot) ==
    [op |-> op, arg |-> arg, slot |-> slot,
     front0 |-> FrontSize(front), back0 |-> BackSize(back)]

InTable == pc = "run" /\ stack # <<>> /\ Top.op \in TableOps
CanField(slot) == InTable /\ nfields < MaxFields /\ slot \notin Top.used
\* Reference types are written before value types (the documented contract
\* of StartTable).
CanRefField(slot) == CanField(slot) /\ ~Top.vals

----------------------------------------------------------------------------
(* The operations.  An operation that calls a serialization hook is two    *)
(* actions: up to the call of the hook, and from its return.               *)

Init ==
    /\ front = Scratch0
    /\ back = <<>>
    /\ stack = <<>>
    /\ pc = "idle"
    /\ nfields = 0
    /\ refs = {}
    /\ tables = {}
    /\ vectors = {}
    /\ last = [op |-> "none", arg |-> 0, slot |-> 0, front0 |-> 0, back0 |-> 0]
    /\ stale = {}

\* SerializeObject up to the call of the object's hook.
SerializeObject ==
    /\ pc = "idle"
    /\ stack' = Append(stack, Frame("Serialize", FrontSize(front), 0, 0, front, back))
    /\ pc' = "run"
    /\ last' = Did("SerializeObject", 0, 0)
    /\ UNCHANGED <<front, back, nfields, refs, tables, vectors, stale>>

\* Scalar(value, offset, default) with sizeof(T) = alignof(T) = size.
Scalar(slot, size, value) ==
    /\ CanField(slot)
    /\ LET r == AddValueField(Buf(front, back), slot, size, size, value)
       IN  /\ front' = r.front
           /\ back' = r.back
           /\ stack' = ReplaceTop(stack,
                  NoteField(Top, ValueField(slot, size, size, BackSize(r.back))))
    /\ nfields' = nfields + 1
    /\ last' = Did("Scalar", size, slot)
    /\ stale' = stale \cup StaleUses(AddValueFieldEvents(back, size), {})
    /\ UNCHANGED <<pc, refs, tables, vectors>>

\* Struct(value, offset) with sizeof(T) = type[1], alignof(T) = type[2].
Struct(slot, type, value) ==
    /\ CanField(slot)
    /\ LET r == AddValueField(Buf(front, back), slot, type[1], type[2], value)
       IN  /\ front' = r.front
           /\ back' = r.back
           /\ stack' = ReplaceTop(stack,
                  NoteField(Top, ValueField(slot, type[1], type[2], BackSize(r.back))))
    /\ nfields' = nfields + 1
    /\ last' = Did("Struct", type[1], slot)
    /\ stale' = stale \cup StaleUses(AddValueFieldEvents(back, type[2]), {})
    /\ UNCHANGED <<pc, refs, tables, vectors>>

\* NativeStruct(value, offset): AddValueField(index, size, align) and
\* FlatbufferNativeType<T>::Write into the block it returned (bytes `fill`).
NativeStruct(slot, type, fill) ==
    /\ CanField(slot)
    /\ LET r == AddValueFieldNative(Buf(front, back), slot, type[1], type[2], fill)
       IN  /\ front' = r.front
           /\ back' = r.back
           /\ stack' = ReplaceTop(stack,
                  NoteField(Top, ValueField(slot, type[1], type[2], BackSize(r.back))))
    /\ nfields' = nfields + 1
    /\ last' = Did("NativeStruct", type[1], slot)
    /\ stale' = stale \cup StaleUses(AddValueFieldNativeEvents(back, type[2]) \o <<Use("ptr")>>, {})
    /\ UNCHANGED <<pc, refs, tables, vectors>>

String(slot, str) ==
    /\ CanRefField(slot)
    /\ LET c == CreateString(back, str)
           r == AddReferenceField(Buf(front, c.back), slot, c.ret)
       IN  /\ front' = r.front
           /\ back' = r.back
           /\ stack' = ReplaceTop(stack, NoteField(Top, RefField(slot, c.ret)))
    /\ nfields' = nfields + 1
    /\ last' = Did("String", str, slot)
    /\ stale' = stale \cup StaleUses(CreateStringEvents(str) \o <<Grow>>, {})
    /\ UNCHANGED <<pc, refs, tables, vectors>>

\* A check that never fails.
CheckAlways(a, b) == TRUE

\* CHECK_LE(a, b): whether the check passes.
CheckLE(a, b) == a <= b

\* Reference(reference, offset): CHECK_LE aborts the process when it fails.
Reference(slot, reference) ==
    /\ CanRefField(slot)
    /\ last' = Did("Reference", reference, slot)
    /\ stale' = stale \cup StaleUses(
           IF CheckLE(reference, BackSize(back)) THEN <<Grow>> ELSE <<>>, {})
    /\ IF CheckLE(reference, BackSize(back))
       THEN LET r == AddReferenceField(Buf(front, back), slot, reference)
            IN  /\ front' = r.front
                /\ back' = r.back
                /\ stack' = ReplaceTop(stack, NoteField(Top, RefField(slot, reference)))
                /\ nfields' = nfields + 1
                /\ UNCHANGED <<pc, refs, tables, vectors>>
       ELSE /\ pc' = "aborted"
            /\ UNCHANGED <<front, back, stack, nfields, refs, tables, vectors>>

\* Table(value, offset) up to the call of the nested object's hook.
Table(slot) ==
    /\ CanRefField(slot)
    /\ Depth < MaxDepth
    /\ stack' = Append(ReplaceTop(stack, [Top EXCEPT !.used = @ \cup {slot}]),
                       Frame("Table", FrontSize(front), slot, 0, front, back))
    /\ nfields' = nfields + 1
    /\ last' = Did("Table", 0, slot)
    /\ UNCHANGED <<front, back, pc, refs, tables, vectors, stale>>

\* Union that records a discriminant of 0 whatever the variant.
UnionTypeNone(slot, type) ==
    /\ CanRefField(slot)
    /\ slot - 1 \in Declared
    /\ slot - 1 \notin Top.used
    /\ type # 0 => Depth < MaxDepth
    /\ LET v == AddValueField(Buf(front, back), slot - 1, 1, 1, 0)
           g == [NoteField(Top, ValueField(slot - 1, 1, 1, BackSize(v.back)))
                     EXCEPT !.vals = Top.vals]
       IN  IF type = 0
           THEN LET r == AddReferenceField(v, slot, 0)
                IN  /\ front' = r.front
                    /\ back' = r.back
                    /\ stack' = ReplaceTop(stack, NoteField(g, RefField(slot, 0)))
           ELSE /\ front' = v.front
                /\ back' = v.back
                /\ stack' = Append(ReplaceTop(stack, [g EXCEPT !.used = @ \cup {slot}]),
                       Frame("Union", FrontSize(v.front), slot, 0, v.front, v.back))
    /\ nfields' = nfields + 1
    /\ last' = Did("Union", type, slot)
    /\ stale' = stale \cup StaleUses(AddValueFieldEvents(back, 1) \o (IF type = 0 THEN <<Grow>> ELSE <<>>), {})
    /\ UNCHANGED <<pc, refs, tables, vectors>>

\* Union(value, offset, default): the type is a one-byte enum.  With a variant
\* set, up to the call of the variant's hook.
Union(slot, type) ==
    /\ CanRefField(slot)
    /\ slot - 1 \in Declared
    /\ slot - 1 \notin Top.used
    /\ type # 0 => Depth < MaxDepth
    /\ LET v == AddValueField(Buf(front, back), slot - 1, 1, 1, type)
           g == [NoteField(Top, ValueField(slot - 1, 1, 1, BackSize(v.back)))
                     EXCEPT !.vals = Top.vals]
       IN  IF type = 0
           THEN LET r == AddReferenceField(v, slot, 0)
                IN  /\ front' = r.front
                    /\ back' = r.back
                    /\ stack' = ReplaceTop(stack, NoteField(g, RefField(slot, 0)))
           ELSE /\ front' = v.front
                /\ back' = v.back
                /\ stack' = Append(ReplaceTop(stack, [g EXCEPT !.used = @ \cup {slot}]),
                       Frame("Union", FrontSize(v.front), slot, 0, v.front, v.back))
    /\ nfields' = nfields + 1
    /\ last' = Did("Union", type, slot)
    /\ stale' = stale \cup StaleUses(AddValueFieldEvents(back, 1) \o (IF type = 0 THEN <<Grow>> ELSE <<>>), {})
    /\ UNCHANGED <<pc, refs, tables, vectors>>

\* The return of the hook Table or Union called: EndTable(start), then
\* AddReferenceField(offset / 2, reference).
TableEnd ==
    /\ InTable
    /\ Top.op \in {"Table", "Union"}
    /\ LET e == EndTable(Buf(front, back), Top.start)
           r == AddReferenceField(e.buf, Top.slot, e.ret)
       IN  /\ front' = r.front
           /\ back' = r.back
           /\ refs' = refs \cup e.log
           /\ tables' = tables \cup {TableRecord(Top, e)}
           /\ stack' = ReplaceTop(Pop(stack),
                  NoteField(stack[Len(stack) - 1], RefField(Top.slot, e.ret)))
           /\ last' = Did("EndTable", e.ret, Top.slot)
           /\ stale' = stale \cup StaleUses(EndTableEvents(front, Top.start) \o <<Grow>>, {})
    /\ UNCHANGED <<pc, nfields, vectors>>

\* The elements written first to last.
RECURSIVE AddVectorValuesForward(_, _, _)
AddVectorValuesForward(b, values, size) ==
    IF values = <<>>
    THEN b
    ELSE Bind(WriteBack(b, Head(values), size), LAMBDA b1 :
             AddVectorValuesForward(b1, Tail(values), size))

\* The loop of VectorOfScalars: AddVectorValue for rbegin() .. rend().
RECURSIVE AddVectorValues(_, _, _)
AddVectorValues(b, values, size) ==
    IF values = <<>>
    THEN b
    ELSE Bind(WriteBack(b, values[Len(values)], size), LAMBDA b1 :
             AddVectorValues(b1, SubSeq(values, 1, Len(values) - 1), size))

\* VectorOfScalars / VectorOfStructs: the elements are written to back memory
\* last to first.
VectorOfScalars(slot, elems, size) ==
    /\ CanRefField(slot)
    /\ LET start == FrontSize(front)
           b1 == AddVectorValues(back, elems, size)
           e == EndVector(Buf(front, b1), start, Len(elems))
           r == AddReferenceField(e.buf, slot, e.ret)
       IN  /\ front' = r.front
           /\ back' = r.back
           /\ refs' = refs \cup e.log
           /\ vectors' = vectors \cup {VectorRecord("VectorOfScalars", size, elems, e)}
           /\ stack' = ReplaceTop(stack, NoteField(Top, RefField(slot, e.ret)))
    /\ nfields' = nfields + 1
    /\ last' = Did("VectorOfScalars", elems, slot)
    /\ stale' = stale \cup StaleUses(VectorOfScalarsEvents(FrontSize(front), Len(elems)), {})
    /\ UNCHANGED <<pc, tables>>

RECURSIVE AddVectorStrings(_, _, _)
AddVectorStrings(buf, strs, targets) ==
    IF strs = <<>>
    THEN [buf |-> buf, targets |-> targets]
    ELSE Bind(CreateString(buf.back, Head(strs)), LAMBDA c :
         Bind(AddVectorReference(Buf(buf.front, c.back), c.ret), LAMBDA b1 :
             AddVectorStrings(b1, Tail(strs), Append(targets, c.ret))))

VectorOfStrings(slot, strs) ==
    /\ CanRefField(slot)
    /\ LET start == FrontSize(front)
           a == AddVectorStrings(Buf(front, back), strs, <<>>)
           e == EndVector(a.buf, start, Len(strs))
           r == AddReferenceField(e.buf, slot, e.ret)
       IN  /\ front' = r.front
           /\ back' = r.back
           /\ refs' = refs \cup e.log
           /\ vectors' = vectors \cup
                  {VectorRecord("VectorOfStrings", RefBytes, a.targets, e)}
           /\ stack' = ReplaceTop(stack, NoteField(Top, RefField(slot, e.ret)))
    /\ nfields' = nfields + 1
    /\ last' = Did("VectorOfStrings", strs, slot)
    /\ stale' = stale \cup StaleUses(VectorOfStringsEvents(FrontSize(front), strs), {})
    /\ UNCHANGED <<pc, tables>>

\* VectorOfTables: of an empty vector the whole call, otherwise up to the call
\* of the first table's hook.
VectorOfTables(slot, num) ==
    /\ CanRefField(slot)
    /\ num > 0 => Depth < MaxDepth
    /\ LET start == FrontSize(front)
       IN  IF num = 0
           THEN LET e == EndVector(Buf(front, back), start, 0)
                    r == AddReferenceField(e.buf, slot, e.ret)
                IN  /\ front' = r.front
                    /\ back' = r.back
                    /\ refs' = refs \cup e.log
                    /\ vectors' = vectors \cup
                           {VectorRecord("VectorOfTables", RefBytes, <<>>, e)}
                    /\ stack' = ReplaceTop(stack, NoteField(Top, RefField(slot, e.ret)))
           ELSE /\ stack' =
                       ReplaceTop(stack, [Top EXCEPT !.used = @ \cup {slot}])
                       \o <<Frame("VecTables", start, slot, num, front, back),
                            Frame("VecElem", FrontSize(front), 0, 0, front, back)>>
                /\ UNCHANGED <<front, back, refs, vectors>>
    /\ nfields' = nfields + 1
    /\ last' = Did("VectorOfTables", num, slot)
    /\ stale' = stale \cup StaleUses(IF num = 0 THEN EndVectorEvents(FrontSize(front), FrontSize(front), 0) \o <<Grow>> ELSE <<>>, {})
    /\ UNCHANGED <<pc, tables>>

\* The return of a hook VectorOfTables called: EndTable(table_start) and
\* AddVectorReference(table_end), then the next turn of the loop up to the call
\* of its hook or, after the last table, EndVector and AddReferenceField.
VectorTableEnd ==
    /\ InTable
    /\ Top.op = "VecElem"
    /\ LET vec == stack[Len(stack) - 1]
           e == EndTable(Buf(front, back), Top.start)
           a == AddVectorReference(e.buf, e.ret)
           elems == Append(vec.elems, e.ret)
       IN  /\ tables' = tables \cup {TableRecord(Top, e)}
           /\ last' = Did("EndTable", e.ret, 0)
           /\ stale' = stale \cup StaleUses(
                  EndTableEvents(front, Top.start) \o <<Grow>> \o
                  (IF vec.i + 1 < vec.num THEN <<>>
                   ELSE EndVectorEvents(vec.start, vec.start + RefBytes * vec.num,
                                        vec.num) \o <<Grow>>), {})
           /\ IF vec.i + 1 < vec.num
              THEN /\ front' = a.front
                   /\ back' = a.back
                   /\ refs' = refs \cup e.log
                   /\ stack' =
                          Append(ReplaceTop(Pop(stack),
                                     [vec EXCEPT !.i = @ + 1, !.elems = elems]),
                                 Frame("VecElem", FrontSize(a.front), 0, 0,
                                       a.front, a.back))
                   /\ UNCHANGED vectors
              ELSE LET v == EndVector(a, vec.start, vec.num)
                       r == AddReferenceField(v.buf, vec.slot, v.ret)
                   IN  /\ front' = r.front
                       /\ back' = r.back
                       /\ refs' = refs \cup e.log \cup v.log
                       /\ vectors' = vectors \cup
                              {VectorRecord("VectorOfTables", RefBytes, elems, v)}
                       /\ stack' = ReplaceTop(Pop(Pop(stack)),
                              NoteField(stack[Len(stack) - 2],
                                        RefField(vec.slot, v.ret)))
    /\ UNCHANGED <<pc, nfields>>

\* The return of the hook SerializeObject called: EndTable(table_start),
\* Finish(table_end) and the check for scratch memory left behind (last.arg:
\* the diagnostic is logged).
SerializeObjectEnd ==
    /\ InTable
    /\ Top.op = "Serialize"
    /\ LET e == EndTable(Buf(front, back), Top.start)
           b1 == WriteReference(e.buf.back, e.ret)
       IN  /\ front' = e.buf.front
           /\ back' = b1
           /\ refs' = refs \cup e.log \cup {[P |-> BackSize(b1), target |-> e.ret]}
           /\ tables' = tables \cup {TableRecord(Top, e)}
           /\ last' = Did("Finish", Top.start # FrontSize(e.buf.front), e.ret)
           /\ stale' = stale \cup StaleUses(EndTableEvents(front, Top.start) \o FinishEvents \o <<Get("result")>>, {})
    /\ stack' = Pop(stack)
    /\ pc' = "done"
    /\ UNCHANGED <<nfields, vectors>>

Next ==
    \/ SerializeObject
    \/ \E slot \in Slots, size \in ScalarSizes, value \in ScalarValues :
           Scalar(slot, size, value)
    \/ \E slot \in Slots, type \in StructTypes, value \in ScalarValues :
           Struct(slot, type, value)
    \/ \E slot \in Slots, str \in Strings : String(slot, str)
    \/ \E slot \in Slots, reference \in {BackSize(back), BackSize(back) + 1} :
           Reference(slot, reference)
    \/ \E slot \in Slots : Table(slot)
    \/ \E slot \in Slots, type \in {0, 1} : Union(slot, type)
    \/ TableEnd
    \/ \E slot \in Slots, elems \in ScalarVectors, size \in ElemSizes :
           VectorOfScalars(slot, elems, size)
    \/ \E slot \in Slots, strs \in StringVectors : VectorOfStrings(slot, strs)
    \/ \E slot \in Slots, num \in VecLens : VectorOfTables(slot, num)
    \/ VectorTableEnd
    \/ SerializeObjectEnd

Spec == Init /\ [][Next]_vars

\* Encodes whose hooks write inline values only, of types of 256 bytes and
\* more among them.
NextLarge ==
    \/ SerializeObject
    \/ \E slot \in Slots, size \in ScalarSizes, value \in ScalarValues :
           Scalar(slot, size, value)
    \/ \E slot \in Slots, type \in LargeTypes, value \in ScalarValues :
           Struct(slot, type, value)
    \/ \E slot \in Slots, type \in LargeTypes, fill \in FillBytes :
           NativeStruct(slot, type, fill)
    \/ \E slot \in Slots : Table(slot)
    \/ TableEnd
    \/ SerializeObjectEnd

SpecLarge == Init /\ [][NextLarge]_vars

\* Encodes whose hooks call every field-write operation, NativeStruct
\* included.
NextAll ==
    \/ Next
    \/ \E slot \in Slots, type \in StructTypes, fill \in FillBytes :
           NativeStruct(slot, type, fill)

SpecAll == Init /\ [][NextAll]_vars

----------------------------------------------------------------------------
(* Reading the produced bytes the way a reader of the format does.         *)

\* The back position of the vtable of the table at pos: the table's first four
\* bytes give the distance from the table to its vtable.
VTableOf(b, pos) == pos + ReadBack(b, pos, 4)
VTableSize(b, pos) == ReadBack(b, VTableOf(b, pos), VOffsetBytes)
VTableObjectSize(b, pos) == ReadBack(b, VTableOf(b, pos) - VOffsetBytes, VOffsetBytes)
HasVTableEntry(b, pos, slot) == VOffsetBytes * slot < VTableSize(b, pos)
VTableEntry(b, pos, slot) == ReadBack(b, VTableOf(b, pos) - VOffsetBytes * slot, VOffsetBytes)

\* The position a reference slot at back position p resolves to.
Resolve(b, p) == p - ReadBack(b, p, RefBytes)

\* The back position of element i (from 1) of the vector at pos.
ElementOf(pos, i, size) == pos - RefBytes - (i - 1) * size

FieldsOf(t) == {t.fields[k] : k \in 1..Len(t.fields)}
Present(f) == f.kind = "value" \/ f.pos # 0
PresentFieldsOf(t) == {f \in FieldsOf(t) : Present(f)}
MaxOf(S) == CHOOSE m \in S : \A x \in S : x <= m
MinOf(S) == CHOOSE m \in S : \A x \in S : m <= x
\* The largest slot among the field records of t.
MaxSlotOf(t) == MaxOf({f.slot : f \in FieldsOf(t)})
\* The slots t declares and leaves unset: no write call made for them, or a
\* reference field recorded with position 0.
UnsetSlotsOf(t) == Declared \ {f.slot : f \in PresentFieldsOf(t)}

----------------------------------------------------------------------------
(* C1: every reference slot the writer wrote (a reference field finalized  *)
(* by EndTable, an element finalized by EndVector, the root written by     *)
(* Finish), lying at back position P and holding V, satisfies              *)
(* P - V = the position recorded for its target.                           *)
RelativeOffsetsResolve ==
    \A r \in refs : Resolve(back, r.P) = r.target

\* A finished encode with a reference field, a reference element and the root.
RelativeOffsetsWitness ==
    /\ pc = "done"
    /\ \E t \in tables : t.slots # {}
    /\ \E v \in vectors : v.slots # {}
    /\ \E r \in refs : r.P = BackSize(back)

----------------------------------------------------------------------------
(* C2, as claimed: in every finished table the offset of every inline      *)
(* scalar/struct field within its object, the value its vtable entry       *)
(* holds, is a multiple of the field's alignment.                          *)
FieldOffsetsAligned ==
    \A t \in tables : \A f \in FieldsOf(t) :
        f.kind = "value" => VTableEntry(back, t.pos, f.slot) % f.align = 0

(* C2, amended: in every finished table every inline scalar/struct field   *)
(* has a vtable entry, and the field's back position, the object position  *)
(* minus that entry, is a multiple of the field's alignment.               *)
FieldPositionsAligned ==
    \A t \in tables : \A f \in FieldsOf(t) :
        f.kind = "value" =>
            /\ HasVTableEntry(back, t.pos, f.slot)
            /\ VTableEntry(back, t.pos, f.slot) # 0
            /\ (t.pos - VTableEntry(back, t.pos, f.slot)) % f.align = 0

\* A finished table that mixes a 1-byte field with an 8-byte field written
\* after it.
FieldPositionsWitness ==
    \E t \in tables :
        /\ Len(t.fields) = 2
        /\ t.fields[1].kind = "value" /\ t.fields[1].align = 1
        /\ t.fields[2].kind = "value" /\ t.fields[2].align = 8

----------------------------------------------------------------------------
(* C3: scratch balance.  The records below the mark of every open call are *)
(* untouched; every field-write call a hook has completed, whatever        *)
(* EndTable and EndVector calls it made, has left exactly its one field    *)
(* record on the front extent, and every finished turn of the loop of      *)
(* VectorOfTables exactly its one pending reference; after SerializeObject *)
(* the front extent has the size it had before and the diagnostic is not   *)
(* logged.                                                                 *)
FieldRecord(f) ==
    [index |-> f.slot, size |-> f.size, align |-> f.align, offset |-> f.pos]

FrameBalanced(k) ==
    LET fr == stack[k]
        top == IF k = Len(stack) THEN FrontSize(front) ELSE stack[k + 1].start
    IN  /\ SubSeq(front, 1, fr.start \div 4) = fr.below
        /\ IF fr.op \in TableOps
           THEN /\ top = fr.start + FieldBytes * Len(fr.fields)
                /\ \A n \in 1..Len(fr.fields) :
                       FieldAt(front, fr.start + FieldBytes * (n - 1))
                           = FieldRecord(fr.fields[n])
           ELSE /\ top = fr.start + RefBytes * fr.i
                /\ fr.i = Len(fr.elems)
                /\ \A n \in 1..fr.i : front[fr.start \div 4 + n] = fr.elems[n]

ScratchBalance ==
    /\ \A k \in 1..Len(stack) : FrameBalanced(k)
    /\ pc = "done" => last.arg = FALSE /\ front = Scratch0

\* A hook running again after a nested table with a field of its own and a
\* vector of references were finished.
ScratchBalanceWitness ==
    /\ InTable
    /\ Len(Top.fields) = 2
    /\ \E t \in tables : t.fields # <<>>
    /\ \E v \in vectors : v.slots # {}

----------------------------------------------------------------------------
(* C4, as claimed: in every finished table every declared slot left unset  *)
(* (no write call, or a reference recorded with position 0) has a vtable   *)
(* entry, which is zero, and the recorded object size counts the present   *)
(* fields only.                                                            *)
RecordedSizeOf(t) ==
    LET RECURSIVE Sum(_)
        Sum(k) == IF k = 0 THEN 0
                  ELSE Sum(k - 1) +
                       (IF ~Present(t.fields[k]) THEN 0
                        ELSE IF t.fields[k].kind = "ref" THEN RefBytes
                        ELSE t.fields[k].size)
    IN  Sum(Len(t.fields))

AbsentFieldsCostNothing(t) ==
    /\ VTableObjectSize(back, t.pos) = RecordedSizeOf(t)
    /\ Cardinality(t.slots) =
           Cardinality({k \in 1..Len(t.fields) :
                            t.fields[k].kind = "ref" /\ Present(t.fields[k])})

UnsetSlotsHaveZeroEntry ==
    \A t \in tables :
        /\ \A s \in UnsetSlotsOf(t) :
               HasVTableEntry(back, t.pos, s) /\ VTableEntry(back, t.pos, s) = 0
        /\ AbsentFieldsCostNothing(t)

(* C4, amended: an unset slot no greater than the largest slot among the   *)
(* table's field records (slot 2 always) has a zero vtable entry; a higher *)
(* unset slot lies beyond the vtable's length; the recorded object size    *)
(* counts the present fields only, so it is 0 when every field is unset.   *)
UnsetSlotsReadAbsent ==
    \A t \in tables :
        /\ \A s \in UnsetSlotsOf(t) :
               IF s <= MaxSlotOf([t EXCEPT !.fields = Append(@, RefField(MinSlot, 0))])
               THEN HasVTableEntry(back, t.pos, s) /\ VTableEntry(back, t.pos, s) = 0
               ELSE ~HasVTableEntry(back, t.pos, s)
        /\ AbsentFieldsCostNothing(t)
        /\ PresentFieldsOf(t) = {} => VTableObjectSize(back, t.pos) = 0

\* A finished table with a reference field recorded with position 0 at a slot
\* below a present field.
UnsetSlotsWitness ==
    \E t \in tables : \E f \in FieldsOf(t), g \in FieldsOf(t) :
        ~Present(f) /\ Present(g) /\ f.slot < g.slot

----------------------------------------------------------------------------
(* C5: every empty string is a zero reference in the produced bytes: as a  *)
(* table field (no vtable entry points at a slot for it) and as an element *)
(* of a vector of strings (the element's four bytes hold 0, not an offset  *)
(* that resolves to back position 0).                                      *)
NullRefFieldsOf(t) == {f \in FieldsOf(t) : f.kind = "ref" /\ f.pos = 0}

EmptyStringsAreNull ==
    /\ \A t \in tables : \A f \in NullRefFieldsOf(t) :
           HasVTableEntry(back, t.pos, f.slot) =>
               VTableEntry(back, t.pos, f.slot) = 0
    /\ \A v \in vectors : \A i \in 1..v.num :
           v.op = "VectorOfStrings" /\ v.elems[i] = 0 =>
               ReadBack(back, ElementOf(v.pos, i, RefBytes), RefBytes) = 0

----------------------------------------------------------------------------
(* C6: String with an empty string, and a VectorOf* operation with an      *)
(* empty vector, add no bytes to the back extent and append one field      *)
(* record with size 0 and position 0; in the finished table such a field   *)
(* has vtable entry 0 and the object has no reference slot for it.         *)
EmptyCase ==
    \/ last.op = "String" /\ last.arg = <<>>
    \/ last.op = "VectorOfScalars" /\ last.arg = <<>>
    \/ last.op = "VectorOfStrings" /\ last.arg = <<>>
    \/ last.op = "VectorOfTables" /\ last.arg = 0

EmptyCasesAddNothing ==
    /\ EmptyCase =>
           /\ BackSize(back) = last.back0
           /\ FrontSize(front) = last.front0 + FieldBytes
           /\ FieldAt(front, last.front0) =
                  [index |-> last.slot, size |-> 0, align |-> 0, offset |-> 0]
    /\ \A t \in tables :
           /\ \A f \in NullRefFieldsOf(t) :
                  /\ HasVTableEntry(back, t.pos, f.slot)
                  /\ VTableEntry(back, t.pos, f.slot) = 0
           /\ \A r \in t.slots : r.target # 0
           /\ Cardinality(t.slots) =
                  Cardinality({k \in 1..Len(t.fields) :
                                   t.fields[k].kind = "ref" /\ t.fields[k].pos # 0})

\* A finished table one of whose fields was an empty string or vector, next
\* to a present field.
EmptyCasesWitness ==
    /\ pc = "done"
    /\ \E t \in tables : NullRefFieldsOf(t) # {} /\ PresentFieldsOf(t) # {}

----------------------------------------------------------------------------
(* C7: the position EndVector returned for a non-empty vector of n         *)
(* elements addresses a 4-byte count n followed, reading forward, by the   *)
(* elements in their original order: the values themselves for a vector   *)
(* of scalars, reference slots resolving to the positions recorded for the *)
(* elements' objects for a vector of strings or tables.                    *)
VectorLayout ==
    \A v \in vectors : v.num > 0 =>
        /\ v.pos # 0
        /\ ReadBack(back, v.pos, RefBytes) = v.num
        /\ \A i \in 1..v.num :
               IF v.op = "VectorOfScalars"
               THEN ReadBack(back, ElementOf(v.pos, i, v.size), v.size) = v.elems[i]
               ELSE /\ Resolve(back, ElementOf(v.pos, i, RefBytes)) = v.elems[i]
                    /\ [P |-> ElementOf(v.pos, i, RefBytes), target |-> v.elems[i]]
                           \in v.slots

\* Finished vectors of scalars, of strings and of tables, each of more than
\* one element, have been seen by the end of some encode.
VectorLayoutWitness ==
    /\ \E v \in vectors : v.op = "VectorOfScalars" /\ v.num > 1
    /\ \E v \in vectors :
           v.op # "VectorOfScalars" /\ v.num > 1 /\ v.elems[1] # v.elems[2]

----------------------------------------------------------------------------
(* C8: in every finished table with field records the vtable's first       *)
(* entry is (maxSlot+1)*2, maxSlot the largest slot among the records, and *)
(* its second entry is the byte length of the object as it lies in back    *)
(* memory: from the object's position through the end of its farthest      *)
(* field, padding included.                                                *)
\* The back position just before the first byte written for a field of t.
ObjectStartOf(t) ==
    MinOf({t.pos - RefBytes}
          \cup {f.pos - f.size : f \in {g \in FieldsOf(t) : g.kind = "value"}}
          \cup {r.P - RefBytes : r \in t.slots})

VTableHeader ==
    \A t \in tables : t.fields # <<>> =>
        /\ VTableSize(back, t.pos) = (MaxSlotOf(t) + 1) * VOffsetBytes
        /\ VTableObjectSize(back, t.pos) = t.pos - ObjectStartOf(t)

----------------------------------------------------------------------------
(* C9: in every finished table, for every present field with slot s the    *)
(* vtable has an entry for s equal to the object's position minus the      *)
(* field's back position (a reference field's being that of its reference  *)
(* slot, which resolves to the field's target); every other entry is 0;    *)
(* and the four bytes at the table's position hold the distance to the     *)
(* start of the table's own vtable, which lies immediately ahead of it.    *)
VTableSlotsOf(t) ==
    {s \in MinSlot..(MaxSlot + 1) : HasVTableEntry(back, t.pos, s)}

VTableLocatesFields ==
    \A t \in tables :
        /\ \A f \in PresentFieldsOf(t) :
               /\ HasVTableEntry(back, t.pos, f.slot)
               /\ VTableEntry(back, t.pos, f.slot) # 0
               /\ IF f.kind = "value"
                  THEN t.pos - VTableEntry(back, t.pos, f.slot) = f.pos
                  ELSE /\ Resolve(back, t.pos - VTableEntry(back, t.pos, f.slot))
                              = f.pos
                       /\ [P |-> t.pos - VTableEntry(back, t.pos, f.slot),
                           target |-> f.pos] \in t.slots
        /\ \A s \in VTableSlotsOf(t) \ {f.slot : f \in PresentFieldsOf(t)} :
               VTableEntry(back, t.pos, s) = 0
        /\ ReadBack(back, t.pos, RefBytes) = VTableSize(back, t.pos)
        /\ VTableOf(back, t.pos) <= BackSize(back)

\* A finished table with a value field and a reference field, and a table
\* with a zero entry in its vtable.
VTableLocatesWitness ==
    /\ \E t \in tables : \E f \in PresentFieldsOf(t), g \in PresentFieldsOf(t) :
           f.kind = "value" /\ g.kind = "ref"
    /\ \E t \in tables : \E s \in VTableSlotsOf(t) :
           s \notin {f.slot : f \in PresentFieldsOf(t)}

----------------------------------------------------------------------------
(* C10: Reference(reference, offset) with reference greater than the size  *)
(* of the back extent aborts the encode, appending no field record and     *)
(* writing nothing to the back extent, and nothing runs after the abort;   *)
(* otherwise it appends exactly one field record with size 0 holding       *)
(* reference and leaves the back extent as it was.                         *)
ReferenceFailsFast ==
    /\ pc = "aborted" => last.op = "Reference" /\ last.arg > last.back0
    /\ pc = "aborted" => ~ENABLED Next
    /\ last.op = "Reference" =>
           /\ BackSize(back) = last.back0
           /\ IF last.arg > last.back0
              THEN /\ pc = "aborted"
                   /\ FrontSize(front) = last.front0
              ELSE /\ pc = "run"
                   /\ FrontSize(front) = last.front0 + FieldBytes
                   /\ FieldAt(front, last.front0) =
                          [index |-> last.slot, size |-> 0, align |-> 0,
                           offset |-> last.arg]

\* The encode was aborted by a Reference beyond a non-empty back extent.
ReferenceFailsFastWitness ==
    pc = "aborted" /\ last.back0 > 0

----------------------------------------------------------------------------
(* C12: Union records the discriminant as a one-byte inline field at the   *)
(* slot below the union's and one reference record at the union's slot.    *)
(* With discriminant 0 the reference record has position 0, no table is    *)
(* written and the finished table has a zero entry at the union's slot;    *)
(* otherwise the variant is written as a nested table, started right after *)
(* the discriminant, and the reference record holds the position EndTable  *)
(* returned for it.                                                        *)
\* The pairs <<k, k + 1>> of field records of t that a Union call made: only
\* Union records a value field and then a reference field.
UnionsOf(t) ==
    {k \in 1..(Len(t.fields) - 1) :
        /\ t.fields[k].kind = "value"
        /\ t.fields[k + 1].kind = "ref"
        /\ t.fields[k + 1].slot = t.fields[k].slot + 1}

UnionCallRecords ==
    last.op = "Union" =>
        /\ BackSize(back) = last.back0 + 1
        /\ ReadBack(back, BackSize(back), 1) = last.arg
        /\ FieldAt(front, last.front0) =
               [index |-> last.slot - 1, size |-> 1, align |-> 1,
                offset |-> BackSize(back)]
        /\ IF last.arg = 0
           THEN /\ FrontSize(front) = last.front0 + 2 * FieldBytes
                /\ FieldAt(front, last.front0 + FieldBytes) =
                       [index |-> last.slot, size |-> 0, align |-> 0, offset |-> 0]
                /\ Top.fields[Len(Top.fields)] = RefField(last.slot, 0)
           ELSE /\ FrontSize(front) = last.front0 + FieldBytes
                /\ Top.op = "Union" /\ Top.slot = last.slot
                /\ Top.start = FrontSize(front) /\ Top.fields = <<>>

UnionVariantReturn ==
    last.op = "EndTable" /\ last.slot # 0 =>
        /\ FieldAt(front, FrontSize(front) - FieldBytes) =
               [index |-> last.slot, size |-> 0, align |-> 0, offset |-> last.arg]
        /\ \E u \in tables : u.pos = last.arg
        /\ BackSize(back) = last.arg + VTableSize(back, last.arg)

UnionFields ==
    /\ UnionCallRecords
    /\ UnionVariantReturn
    /\ \A t \in tables : \A k \in UnionsOf(t) :
           LET f == t.fields[k]
               g == t.fields[k + 1]
           IN  /\ f.size = 1
               /\ t.pos - VTableEntry(back, t.pos, f.slot) = f.pos
               /\ HasVTableEntry(back, t.pos, g.slot)
               /\ IF ReadBack(back, f.pos, 1) = 0
                  THEN g.pos = 0 /\ VTableEntry(back, t.pos, g.slot) = 0
                  ELSE /\ \E u \in tables : u.pos = g.pos /\ u.back0 = f.pos
                       /\ Resolve(back, t.pos - VTableEntry(back, t.pos, g.slot))
                              = g.pos

\* A finished encode with a union whose variant is set, the variant's table
\* holding a union of discriminant 0.
UnionFieldsWitness ==
    /\ pc = "done"
    /\ \E t \in tables : \E k \in UnionsOf(t) :
           /\ t.fields[k + 1].pos # 0
           /\ \E u \in tables : u.pos = t.fields[k + 1].pos /\ u.fields # <<>>
    /\ \E t \in tables : \E k \in UnionsOf(t) : t.fields[k + 1].pos = 0

----------------------------------------------------------------------------
(* C13: every field an inline value write recorded is finished by EndTable *)
(* as an inline field of its true size, values of 256 bytes and more       *)
(* included: the size in its field record is the value's size and not 0,   *)
(* EndTable writes no reference slot for it, the vtable entry of its slot  *)
(* locates the value, and the recorded object size counts its real size.   *)
OpenValueRecordsKeepSize ==
    \A k \in 1..Len(stack) : \A n \in 1..Len(stack[k].fields) :
        stack[k].fields[n].kind = "value" =>
            LET field == FieldAt(front, stack[k].start + FieldBytes * (n - 1))
            IN  field.size # 0 /\ field.size = stack[k].fields[n].size

InlineFieldsKeepSize ==
    /\ OpenValueRecordsKeepSize
    /\ \A t \in tables :
           /\ \A f \in FieldsOf(t) : f.kind = "value" =>
                  /\ HasVTableEntry(back, t.pos, f.slot)
                  /\ t.pos - VTableEntry(back, t.pos, f.slot) = f.pos
           /\ \A r \in t.slots : \E f \in FieldsOf(t) :
                  f.kind = "ref" /\ f.pos = r.target
           /\ VTableObjectSize(back, t.pos) = RecordedSizeOf(t)

----------------------------------------------------------------------------
(* C11: with every front or back write taken to grow the buffer and move   *)
(* its storage, no writer operation reads or writes through an address it  *)
(* obtained before such a write: not WriteTable through its field pointer  *)
(* after WriteReference, not the caller of the native-struct AddValueField *)
(* through the address it returned, not EndVector through its pointer to   *)
(* the pending entry, not UpdateVTable through the vtable address.         *)
NoDanglingUse == stale = {}

\* A finished encode in which EndVector converted pending references,
\* WriteTable wrote a reference field and NativeStruct filled its block.
NoDanglingUseWitness ==
    /\ pc = "done"
    /\ \E v \in vectors : v.slots # {}
    /\ \E t \in tables :
           /\ t.slots # {}
           /\ \E f \in FieldsOf(t) :
                  f.kind = "value" /\ ReadBack(back, f.pos, 1) \in FillBytes

====
